---- MODULE Spec2Model ----
(***************************************************************************)
(* SimpleIDB (src/src/index.ts, lines 15-176): a promise adapter over the  *)
(* host's IndexedDB engine.  One handle (fields db, upgradeTransaction)    *)
(* drives one engine database.  The adapter's methods and the handlers it  *)
(* installs on engine requests are the actions; the engine is the          *)
(* environment: it processes open requests in order, runs one upgrade      *)
(* transaction at a time, and answers each data request with one event.    *)
(***************************************************************************)
EXTENDS Integers, Sequences, FiniteSets, TLC

\* ---------------------------------------------------------------- bounds
MaxOpens == 2
MaxVersion == 2
MaxInFlight == 2
MaxKey == 2

\* ------------------------------------------------------------ value sets
\* null for a reference (requests and connections are numbered from 1)
NULL == 0
\* an optional value is << >> (undefined, absent) or << v >>
UNDEF == << >>
Some(v) == << v >>
Val(o) == o[1]
NoStore == << >>
NoIndex == << >>

StoreNames == {"users", "posts"}
IndexNames == {"email"}
Requests == 1..MaxOpens
Versions == 1..MaxVersion
DataIds == 1..MaxInFlight
\* two instances of SimpleIDB (new SimpleIDB() twice)
Handles == {"a", "b"}

\* options?: StoreOptions as the caller passes them (a missing field is UNDEF)
StoreOptionsIn ==
    { [keyPath |-> UNDEF, autoIncrement |-> UNDEF],
      [keyPath |-> Some("id"), autoIncrement |-> UNDEF],
      [keyPath |-> UNDEF, autoIncrement |-> Some(TRUE)] }

LifeStoreOptionsIn ==
    { [keyPath |-> Some("id"), autoIncrement |-> UNDEF],
      [keyPath |-> UNDEF, autoIncrement |-> UNDEF] }

\* keyPath and options?: IndexOptions as the caller passes them
IndexArgsIn ==
    { [keyPath |-> "email", options |-> [unique |-> Some(TRUE), multiEntry |-> UNDEF]],
      [keyPath |-> "tags",  options |-> [unique |-> UNDEF, multiEntry |-> Some(TRUE)]] }

\* keys of records, records handed to add/put
Keys == 1..MaxKey
DataIn == { [id |-> 1, name |-> "John"], [id |-> 1, name |-> "Jane"],
            [id |-> 2, name |-> "Jane"] }

DataOps == {"add", "get", "put", "delete", "clear", "getAll", "count"}

VARIABLES
    supported,          \* 'indexedDB' in self
    db,                 \* SimpleIDB.db: NULL or the connection of a request
    upgradeTransaction, \* SimpleIDB.upgradeTransaction: NULL or a request's transaction
    nOpens,             \* open() calls made so far
    reqState,           \* engine open request: unused/norequest/pending/upgrading/
                        \*   upgraded/aborted/success/error
    reqVersion,         \* version argument of the request
    reqCallback,        \* whether an upgradeCallback was passed
    openPromise,        \* promise returned by open(): none/pending/resolved/rejected kinds
    invoked,            \* history: times the upgradeCallback of the request was called
    connState,          \* engine connection of the request: none/open/closed
    connNames,          \* objectStoreNames of that connection
    running,            \* request whose upgradeCallback is executing, or NULL
    dbVersion,          \* engine: stored version of the database (0: absent)
    stores,             \* engine: schema, store name -> NoStore or its configuration
    records,            \* engine: store name -> key -> record or UNDEF
    keyGen,             \* engine: store name -> last key its key generator gave
    saved,              \* engine: version and schema to restore if the upgrade aborts
    calls,              \* per data call slot: its promise and its engine request
    queue,              \* engine: the pending data calls in the order issued
    hdb,                \* two handles: the db field of each SimpleIDB instance
    hctx,               \* two handles: the upgradeTransaction field of each instance
    owner,              \* two handles: the instance whose open() issued the request
    turn,               \* two handles: the instance whose method or handler ran last
    closedAt,           \* history: nOpens at the latest close() (-1: never closed)
    last                \* the step just taken: operation, outcome, engine calls issued

vars == << supported, db, upgradeTransaction, nOpens, reqState, reqVersion,
           reqCallback, openPromise, invoked, connState, connNames, running, dbVersion,
           stores, records, keyGen, saved, calls, queue, hdb, hctx, owner, turn,
           closedAt, last >>

handleVars == << db, upgradeTransaction >>
openVars == << nOpens, reqState, reqVersion, reqCallback, openPromise, invoked >>
connVars == << connState, connNames >>
schemaVars == << dbVersion, stores, saved >>
dataVars == << records, keyGen, calls, queue >>
\* the fields of the instances when two of them use the database
handlesVars == << hdb, hctx, owner, turn >>

\* ------------------------------------------------------------- helpers
NoSaved == [version |-> 0, stores |-> [s \in StoreNames |-> NoStore]]
NoCall == [st |-> "free", op |-> "-", store |-> "-", arg |-> UNDEF,
           conn |-> NULL, scope |-> {}, mode |-> "-", result |-> UNDEF, err |-> "-"]
NoRecords == [k \in Keys |-> UNDEF]

Step(op, store, result, engineCalls) ==
    [op |-> op, store |-> store, result |-> result, calls |-> engineCalls,
     db0 |-> db, tx0 |-> upgradeTransaction, args |-> << >>]

ExistingStores == {s \in StoreNames : stores[s] # NoStore}

\* the engine has a live (not finished) upgrade transaction on connection c
LiveUpgrade(c) == reqState[c] \in {"upgrading", "upgraded"}
\* that transaction is active: the upgradeneeded handler is on the stack
ActiveUpgrade(c) == reqState[c] = "upgrading"

OpenConns == {r \in Requests : connState[r] = "open"}
PendingCalls == {c \in DataIds : calls[c].st = "pending"}

Init ==
    /\ supported \in BOOLEAN
    /\ db = NULL
    /\ upgradeTransaction = NULL
    /\ nOpens = 0
    /\ reqState = [r \in Requests |-> "unused"]
    /\ reqVersion = [r \in Requests |-> 0]
    /\ reqCallback = [r \in Requests |-> FALSE]
    /\ openPromise = [r \in Requests |-> "none"]
    /\ invoked = [r \in Requests |-> 0]
    /\ connState = [r \in Requests |-> "none"]
    /\ connNames = [r \in Requests |-> {}]
    /\ running = NULL
    /\ dbVersion = 0
    /\ stores = [s \in StoreNames |-> NoStore]
    /\ records = [s \in StoreNames |-> NoRecords]
    /\ keyGen = [s \in StoreNames |-> 0]
    /\ saved = NoSaved
    /\ calls = [c \in DataIds |-> NoCall]
    /\ queue = << >>
    /\ hdb = [h \in Handles |-> NULL]
    /\ hctx = [h \in Handles |-> NULL]
    /\ owner = [r \in Requests |-> "-"]
    /\ turn = "-"
    /\ closedAt = -1
    /\ last = [op |-> "new", store |-> "-", result |-> "ok", calls |-> << >>,
               db0 |-> NULL, tx0 |-> NULL, args |-> << >>]

\* ------------------------------------------------------------ open()
\* open(dbName, version, upgradeCallback?): lines 19-40.  Throws when the host
\* has no indexedDB; otherwise issues one engine open request and installs
\* the three handlers.  No handle field is written here.
\* Mutant: open() without the test of the host's capability.
openNoCapabilityCheck(version, hasCallback) ==
    /\ nOpens < MaxOpens
    /\ LET r == nOpens + 1 IN
       /\ nOpens' = r
       /\ reqVersion' = [reqVersion EXCEPT ![r] = version]
       /\ reqCallback' = [reqCallback EXCEPT ![r] = hasCallback]
       /\ reqState' = [reqState EXCEPT ![r] = "pending"]
       /\ openPromise' = [openPromise EXCEPT ![r] = "pending"]
       /\ last' = Step("open", "-", "issued", << "open" >>)
    /\ UNCHANGED << supported, handlesVars, handleVars, invoked, connVars, running, schemaVars,
                    dataVars, closedAt >>

open(version, hasCallback) ==
    /\ nOpens < MaxOpens
    /\ LET r == nOpens + 1 IN
       /\ nOpens' = r
       /\ reqVersion' = [reqVersion EXCEPT ![r] = version]
       /\ reqCallback' = [reqCallback EXCEPT ![r] = hasCallback]
       /\ IF ~supported
            THEN /\ reqState' = [reqState EXCEPT ![r] = "norequest"]
                 /\ openPromise' = [openPromise EXCEPT ![r] = "rejected:Unsupported"]
                 /\ last' = Step("open", "-", "Unsupported", << >>)
            ELSE /\ reqState' = [reqState EXCEPT ![r] = "pending"]
                 /\ openPromise' = [openPromise EXCEPT ![r] = "pending"]
                 /\ last' = Step("open", "-", "issued", << "open" >>)
    /\ UNCHANGED << supported, handlesVars, handleVars, invoked, connVars, running, schemaVars,
                    dataVars, closedAt >>

\* The engine serves the open requests of one database in the order issued.
EngineReady(r) ==
    /\ reqState[r] = "pending"
    /\ \A q \in Requests : q < r => reqState[q] \in {"norequest", "success", "error"}

\* Mutant: the success handler resolves without storing the reference.
onsuccessHandlerNoStore(r) ==
    /\ db' = db
    /\ upgradeTransaction' = NULL
    /\ openPromise' = [openPromise EXCEPT ![r] =
                          IF @ = "pending" THEN "resolved" ELSE @]

\* Mutant: the success handler stores the reference and does not resolve.
onsuccessHandlerNoResolve(r) ==
    /\ db' = r
    /\ upgradeTransaction' = NULL
    /\ UNCHANGED openPromise

\* Mutant: once close() has been called the success handler no longer stores
\* the reference.
onsuccessHandlerDeadAfterClose(r) ==
    /\ db' = IF closedAt >= 0 THEN NULL ELSE r
    /\ upgradeTransaction' = NULL
    /\ openPromise' = [openPromise EXCEPT ![r] =
                          IF @ = "pending" THEN "resolved" ELSE @]

\* request.onsuccess: lines 28-32.
onsuccessHandler(r) ==
    /\ db' = r
    /\ upgradeTransaction' = NULL
    /\ openPromise' = [openPromise EXCEPT ![r] =
                          IF @ = "pending" THEN "resolved" ELSE @]

\* Engine: success event of request r, either with no upgrade (requested
\* version equals the stored one) or after the upgrade transaction committed.
onsuccess(r) ==
    /\ running = NULL
    /\ \/ /\ EngineReady(r)
          /\ reqVersion[r] = dbVersion
          /\ connNames' = [connNames EXCEPT ![r] = ExistingStores]
          /\ UNCHANGED saved
       \/ /\ reqState[r] = "upgraded"
          /\ connState[r] = "open"
          /\ saved' = NoSaved
          /\ UNCHANGED connNames
    /\ reqState' = [reqState EXCEPT ![r] = "success"]
    /\ connState' = [connState EXCEPT ![r] = "open"]
    /\ onsuccessHandler(r)
    /\ last' = Step("onsuccess", "-", "ok", << >>)
    /\ UNCHANGED << supported, handlesVars, nOpens, reqVersion, reqCallback, invoked, running,
                    dbVersion, stores, dataVars, closedAt >>

\* Mutant: the error handler of open leaves the promise pending.
onerrorHandlerSilent(r) ==
    /\ UNCHANGED openPromise
    /\ UNCHANGED handleVars

\* request.onerror: line 27.  Rejects; writes no handle field.
onerrorHandler(r) ==
    /\ openPromise' = [openPromise EXCEPT ![r] =
                          IF @ = "pending" THEN "rejected:OpenFailed" ELSE @]
    /\ UNCHANGED handleVars

\* Engine: error event of request r: the requested version is below the stored
\* one (VersionError), the upgrade transaction aborted, or the connection was
\* closed while the upgrade ran (AbortError).
onerror(r) ==
    /\ running = NULL
    /\ \/ /\ EngineReady(r)
          /\ reqVersion[r] < dbVersion
       \/ reqState[r] = "aborted"
       \/ /\ reqState[r] = "upgraded"
          /\ connState[r] = "closed"
    /\ reqState' = [reqState EXCEPT ![r] = "error"]
    /\ saved' = IF reqState[r] = "upgraded" THEN NoSaved ELSE saved
    /\ onerrorHandler(r)
    /\ last' = Step("onerror", "-", "ok", << >>)
    /\ UNCHANGED << supported, handlesVars, nOpens, reqVersion, reqCallback, invoked, connVars,
                    running, dbVersion, stores, dataVars, closedAt >>

\* Engine: the upgrade transaction of r is rolled back: version and schema
\* return to what they were, the connection is closed.
AbortUpgrade(r) ==
    /\ dbVersion' = saved.version
    /\ stores' = saved.stores
    /\ saved' = NoSaved
    /\ connState' = [connState EXCEPT ![r] = "closed"]
    /\ connNames' = [connNames EXCEPT ![r] =
                        {s \in StoreNames : saved.stores[s] # NoStore}]
    /\ records' = [s \in StoreNames |->
                      IF saved.stores[s] = NoStore THEN NoRecords ELSE records[s]]
    /\ keyGen' = [s \in StoreNames |->
                      IF saved.stores[s] = NoStore THEN 0 ELSE keyGen[s]]

\* Engine: the upgrade starts once no other connection is open: the
\* connection is created and the version is raised inside the transaction.
StartUpgrade(r) ==
    /\ EngineReady(r)
    /\ reqVersion[r] > dbVersion
    /\ OpenConns = {}
    /\ PendingCalls = {}
    /\ saved' = [version |-> dbVersion, stores |-> stores]
    /\ dbVersion' = reqVersion[r]
    /\ connState' = [connState EXCEPT ![r] = "open"]
    /\ connNames' = [connNames EXCEPT ![r] = ExistingStores]

\* Mutant: the upgrade context is cleared before the callback is invoked.
upgradeContextCleared(r) == NULL

\* Mutant: the handler keeps a context left over from an earlier upgrade
\* instead of taking the transaction of its own event.
upgradeContextLeftOver(r) == IF upgradeTransaction # NULL THEN upgradeTransaction ELSE r

\* Line 35: the upgrade context the handle holds while the callback runs.
upgradeContext(r) == r

\* Mutant: the upgradeneeded handler stores the references and returns
\* without calling upgradeCallback.
onupgradeneededSkipsCallback(r) ==
    /\ running = NULL
    /\ StartUpgrade(r)
    /\ db' = r
    /\ upgradeTransaction' = NULL
    /\ running' = NULL
    /\ reqState' = [reqState EXCEPT ![r] = "upgraded"]
    /\ last' = Step("onupgradeneeded", "-", "ok", << >>)
    /\ UNCHANGED << supported, handlesVars, nOpens, reqVersion, reqCallback, openPromise,
                    invoked, stores, dataVars, closedAt >>

\* request.onupgradeneeded: lines 33-38, up to the call of upgradeCallback;
\* with no callback the handler runs to its end in this step.
onupgradeneeded(r) ==
    /\ running = NULL
    /\ StartUpgrade(r)
    /\ db' = r
    /\ IF reqCallback[r]
         THEN /\ upgradeTransaction' = upgradeContext(r)
              /\ running' = r
              /\ invoked' = [invoked EXCEPT ![r] = @ + 1]
              /\ reqState' = [reqState EXCEPT ![r] = "upgrading"]
         ELSE /\ upgradeTransaction' = NULL
              /\ running' = NULL
              /\ UNCHANGED invoked
              /\ reqState' = [reqState EXCEPT ![r] = "upgraded"]
    /\ last' = Step("onupgradeneeded", "-", "ok", << >>)
    /\ UNCHANGED << supported, handlesVars, nOpens, reqVersion, reqCallback, openPromise,
                    stores, dataVars, closedAt >>

\* upgradeCallback returns: line 37 clears the upgrade context.
callbackReturn ==
    /\ running # NULL
    /\ upgradeTransaction' = NULL
    /\ running' = NULL
    /\ reqState' = [reqState EXCEPT ![running] = "upgraded"]
    /\ last' = Step("callbackReturn", "-", "ok", << >>)
    /\ UNCHANGED << supported, handlesVars, db, nOpens, reqVersion, reqCallback, openPromise,
                    invoked, connVars, schemaVars, dataVars, closedAt >>

\* upgradeCallback throws: the exception leaves the handler at line 36, so
\* line 37 is not reached; the engine aborts the upgrade transaction.
callbackThrow ==
    /\ running # NULL
    /\ running' = NULL
    /\ reqState' = [reqState EXCEPT ![running] = "aborted"]
    /\ AbortUpgrade(running)
    /\ last' = Step("callbackThrow", "-", "throw", << >>)
    /\ UNCHANGED << supported, handlesVars, handleVars, nOpens, reqVersion, reqCallback,
                    openPromise, invoked, calls, queue, closedAt >>

\* Engine: the upgrade transaction fails to commit after the handler returned.
abortAtCommit(r) ==
    /\ running = NULL
    /\ reqState[r] = "upgraded"
    /\ connState[r] = "open"
    /\ reqState' = [reqState EXCEPT ![r] = "aborted"]
    /\ AbortUpgrade(r)
    /\ last' = Step("abortAtCommit", "-", "ok", << >>)
    /\ UNCHANGED << supported, handlesVars, handleVars, nOpens, reqVersion, reqCallback,
                    openPromise, invoked, running, calls, queue, closedAt >>

\* Mutant: close() rejects the data calls that are in flight.
closeCancels ==
    /\ db' = NULL
    /\ IF db # NULL
         THEN /\ connState' = [connState EXCEPT ![db] = "closed"]
              /\ last' = Step("close", "-", "ok", << "close" >>)
         ELSE /\ UNCHANGED connState
              /\ last' = Step("close", "-", "ok", << >>)
    /\ closedAt' = nOpens
    /\ calls' = [c \in DataIds |->
                    IF calls[c].st = "pending"
                      THEN [calls[c] EXCEPT !.st = "rejected", !.err = "AbortError"]
                      ELSE calls[c]]
    /\ queue' = << >>
    /\ UNCHANGED << supported, handlesVars, upgradeTransaction, openVars, connNames, running,
                    schemaVars, records, keyGen >>

\* Mutant: close() closes the connection and keeps the reference.
closeKeepsReference ==
    /\ IF db # NULL
         THEN /\ connState' = [connState EXCEPT ![db] = "closed"]
              /\ last' = Step("close", "-", "ok", << "close" >>)
         ELSE /\ UNCHANGED connState
              /\ last' = Step("close", "-", "ok", << >>)
    /\ closedAt' = nOpens
    /\ UNCHANGED << supported, handlesVars, handleVars, openVars, connNames, running,
                    schemaVars, dataVars >>

\* close(): lines 172-175.
close ==
    /\ db' = NULL
    /\ IF db # NULL
         THEN /\ connState' = [connState EXCEPT ![db] = "closed"]
              /\ last' = Step("close", "-", "ok", << "close" >>)
         ELSE /\ UNCHANGED connState
              /\ last' = Step("close", "-", "ok", << >>)
    /\ closedAt' = nOpens
    /\ UNCHANGED << supported, handlesVars, upgradeTransaction, openVars, connNames, running,
                    schemaVars, dataVars >>

\* ------------------------------------------------------- createStore()
\* x ?? d
Coalesce(x, d) == IF x = UNDEF THEN d ELSE Val(x)

\* Engine: IDBDatabase.createObjectStore(name, {keyPath, autoIncrement}) on
\* connection c.  It throws unless c has a running upgrade transaction whose
\* upgradeneeded handler is on the stack; the outcome is "ok" or the
\* exception's name.
createObjectStoreOutcome(c, name) ==
    IF ~LiveUpgrade(c) THEN "InvalidStateError"
    ELSE IF ~ActiveUpgrade(c) THEN "TransactionInactiveError"
    ELSE IF stores[name] # NoStore THEN "ConstraintError"
    ELSE "ok"

NewStore(keyPath, autoIncrement) ==
    Some([keyPath |-> keyPath, autoIncrement |-> autoIncrement,
          indexes |-> [i \in IndexNames |-> NoIndex]])

\* Mutant: createStore returns silently when the handle has no database.
createStoreResultSilent(storeName) ==
    IF db = NULL THEN "noop"
    ELSE IF storeName \in connNames[db] THEN "noop"
    ELSE createObjectStoreOutcome(db, storeName)

\* Mutant: createStore without the objectStoreNames.contains() test.
createStoreResultNoContains(storeName) ==
    IF db = NULL THEN "NotOpen"
    ELSE createObjectStoreOutcome(db, storeName)

\* createStore, lines 43-52: what the call does: throw NotOpen, return at
\* once for a name the connection has, or hand over to createObjectStore.
createStoreResult(storeName) ==
    IF db = NULL THEN "NotOpen"
    ELSE IF storeName \in connNames[db] THEN "noop"
    ELSE createObjectStoreOutcome(db, storeName)

\* Mutant: an omitted autoIncrement flag is taken as true.
createStoreConfigAutoDefault(options) ==
    NewStore(options.keyPath, Coalesce(options.autoIncrement, TRUE))

\* createStore, lines 49-52: the configuration handed to createObjectStore.
createStoreConfig(options) ==
    NewStore(options.keyPath, Coalesce(options.autoIncrement, FALSE))

\* createStore(storeName, options?): lines 42-53.  The step's args are the
\* caller's options when the call reaches createObjectStore.
createStore(storeName, options) ==
    /\ LET res == createStoreResult(storeName) IN
       /\ last' = [Step("createStore", storeName, res,
                        IF res \in {"NotOpen", "noop"} THEN << >>
                                                       ELSE << "createObjectStore" >>)
                       EXCEPT !.args = IF res \in {"NotOpen", "noop"}
                                         THEN << >> ELSE << options >>]
       /\ IF res = "ok"
            THEN /\ stores' = [stores EXCEPT ![storeName] = createStoreConfig(options)]
                 /\ connNames' = [connNames EXCEPT ![db] = @ \cup {storeName}]
            ELSE UNCHANGED << stores, connNames >>
    /\ UNCHANGED << supported, handlesVars, handleVars, openVars, connState, running,
                    dbVersion, saved, dataVars, closedAt >>

\* ------------------------------------------------------- createIndex()
\* Engine: IDBTransaction.objectStore(name) on the upgrade transaction t.
objectStoreOutcome(t, name) ==
    IF ~LiveUpgrade(t) THEN "InvalidStateError"
    ELSE IF stores[name] = NoStore THEN "NotFoundError"
    ELSE "ok"

\* Engine: IDBObjectStore.createIndex(...) through the upgrade transaction t.
createIndexOutcome(t, name, indexName) ==
    IF ~ActiveUpgrade(t) THEN "TransactionInactiveError"
    ELSE IF Val(stores[name]).indexes[indexName] # NoIndex THEN "ConstraintError"
    ELSE "ok"

NewIndex(keyPath, unique, multiEntry) ==
    Some([keyPath |-> keyPath, unique |-> unique, multiEntry |-> multiEntry])

WithIndex(store, indexName, index) ==
    Some([Val(store) EXCEPT !.indexes[indexName] = index])

\* Mutant: createIndex tests the upgrade context before the store's existence.
createIndexResultCtxFirst(storeName, indexName) ==
    IF db = NULL THEN "NotOpen"
    ELSE IF upgradeTransaction = NULL THEN "OutsideUpgrade"
    ELSE IF storeName \notin connNames[db] THEN "StoreNotFound"
    ELSE IF objectStoreOutcome(upgradeTransaction, storeName) # "ok"
      THEN objectStoreOutcome(upgradeTransaction, storeName)
    ELSE IF Val(stores[storeName]).indexes[indexName] # NoIndex THEN "noop"
    ELSE createIndexOutcome(upgradeTransaction, storeName, indexName)

\* Mutant: createIndex without the indexNames.contains() test.
createIndexResultNoContains(storeName, indexName) ==
    IF db = NULL THEN "NotOpen"
    ELSE IF storeName \notin connNames[db] THEN "StoreNotFound"
    ELSE IF upgradeTransaction = NULL THEN "OutsideUpgrade"
    ELSE IF objectStoreOutcome(upgradeTransaction, storeName) # "ok"
      THEN objectStoreOutcome(upgradeTransaction, storeName)
    ELSE createIndexOutcome(upgradeTransaction, storeName, indexName)

\* Mutant: createIndex without the objectStoreNames.contains() test.
createIndexResultNoStoreCheck(storeName, indexName) ==
    IF db = NULL THEN "NotOpen"
    ELSE IF upgradeTransaction = NULL THEN "OutsideUpgrade"
    ELSE IF objectStoreOutcome(upgradeTransaction, storeName) # "ok"
      THEN objectStoreOutcome(upgradeTransaction, storeName)
    ELSE IF Val(stores[storeName]).indexes[indexName] # NoIndex THEN "noop"
    ELSE createIndexOutcome(upgradeTransaction, storeName, indexName)

\* createIndex, lines 56-78: the three precondition checks in their order,
\* then objectStore() on the upgrade transaction, the return for an index
\* name the store has, and the hand-over to the engine's createIndex.
createIndexResult(storeName, indexName) ==
    IF db = NULL THEN "NotOpen"
    ELSE IF storeName \notin connNames[db] THEN "StoreNotFound"
    ELSE IF upgradeTransaction = NULL THEN "OutsideUpgrade"
    ELSE IF objectStoreOutcome(upgradeTransaction, storeName) # "ok"
      THEN objectStoreOutcome(upgradeTransaction, storeName)
    ELSE IF Val(stores[storeName]).indexes[indexName] # NoIndex THEN "noop"
    ELSE createIndexOutcome(upgradeTransaction, storeName, indexName)

\* Mutant: an omitted unique flag is taken as true.
createIndexConfigUniqueDefault(keyPath, options) ==
    NewIndex(keyPath, Coalesce(options.unique, TRUE),
             Coalesce(options.multiEntry, FALSE))

\* createIndex, lines 75-78: the index handed to the engine.
createIndexConfig(keyPath, options) ==
    NewIndex(keyPath, Coalesce(options.unique, FALSE),
             Coalesce(options.multiEntry, FALSE))

\* createIndex(storeName, indexName, keyPath, options?): lines 55-79.  The
\* step's args are the caller's arguments when the call reaches the engine's
\* createIndex.
createIndex(storeName, indexName, keyPath, options) ==
    /\ LET res == createIndexResult(storeName, indexName) IN
       /\ last' = [Step("createIndex", storeName, res,
                       CASE res \in {"NotOpen", "StoreNotFound", "OutsideUpgrade"} -> << >>
                         [] res \in {"InvalidStateError", "NotFoundError", "noop"}
                               -> << "objectStore" >>
                         [] OTHER -> << "objectStore", "createIndex" >>)
                       EXCEPT !.args =
                          IF res \in {"NotOpen", "StoreNotFound", "OutsideUpgrade",
                                      "InvalidStateError", "NotFoundError", "noop"}
                            THEN << >> ELSE << indexName, keyPath, options >>]
       /\ IF res = "ok"
            THEN stores' = [stores EXCEPT ![storeName] =
                     WithIndex(@, indexName, createIndexConfig(keyPath, options))]
            ELSE UNCHANGED stores
    /\ UNCHANGED << supported, handlesVars, handleVars, openVars, connVars, running,
                    dbVersion, saved, dataVars, closedAt >>

\* ----------------------------------------------------- data operations
ReadOps == {"get", "getAll", "count"}
\* Mutant: every transaction is opened read-write.
ModeReadwrite(op) == "readwrite"

Mode(op) == IF op \in ReadOps THEN "readonly" ELSE "readwrite"

\* Mutant: delete issues store.clear().
RequestOfDeleteClears(op) == IF op = "delete" THEN "clear" ELSE op

\* Mutant: getAll issues store.count().
RequestOfGetAllCounts(op) == IF op = "getAll" THEN "count" ELSE op

\* Mutant: clear issues store.count().
RequestOfClearCounts(op) == IF op = "clear" THEN "count" ELSE op

\* Mutant: get issues store.count().
RequestOfGetCounts(op) == IF op = "get" THEN "count" ELSE op

\* Lines 88, 101, 114, 127, 140, 153, 166: the request each method issues on
\* the store accessor: store.add for add, store.get for get, and so on.
RequestOf(op) == op

\* Engine: IDBDatabase.transaction([name], mode) on connection c.
transactionOutcome(c, name) ==
    IF LiveUpgrade(c) THEN "InvalidStateError"
    ELSE IF connState[c] # "open" THEN "InvalidStateError"
    ELSE IF name \notin connNames[c] THEN "NotFoundError"
    ELSE "ok"

\* Engine: whether add/put of a record without an explicit key can get one:
\* from the store's key path, else from its key generator.
RequestOutcome(op, name) ==
    IF op \in {"add", "put"}
         /\ Val(stores[name]).keyPath = UNDEF
         /\ ~Val(stores[name]).autoIncrement
      THEN "DataError"
      ELSE "ok"

\* scope and mode are the arguments of the call's transaction() call, if it
\* made one.
Rejected(op, store, arg, err) ==
    [st |-> "rejected", op |-> op, store |-> store, arg |-> arg, conn |-> db,
     scope |-> IF err = "NotOpen" THEN {} ELSE {store},
     mode |-> IF err = "NotOpen" THEN "-" ELSE Mode(op),
     result |-> UNDEF, err |-> err]

\* Mutant: a store name the connection lacks is answered like a closed handle.
dataOpResultMissingAsNotOpen(op, storeName) ==
    IF db = NULL THEN "NotOpen"
    ELSE IF storeName \notin connNames[db] THEN "NotOpen"
    ELSE IF transactionOutcome(db, storeName) # "ok"
      THEN transactionOutcome(db, storeName)
    ELSE IF RequestOutcome(RequestOf(op), storeName) # "ok"
      THEN RequestOutcome(RequestOf(op), storeName)
    ELSE "issued"

\* Mutant: the null reference is not tested before the promise is built; the
\* executor's this.db!.transaction(...) then fails on null.
dataOpResultNoNullCheck(op, storeName) ==
    IF db = NULL THEN "TypeError"
    ELSE IF transactionOutcome(db, storeName) # "ok"
      THEN transactionOutcome(db, storeName)
    ELSE IF RequestOutcome(RequestOf(op), storeName) # "ok"
      THEN RequestOutcome(RequestOf(op), storeName)
    ELSE "issued"

\* Mutant: the null test is made when the call is queued and the executor
\* runs later, after a close() has cleared the reference.
dataOpResultCheckBeforeClose(op, storeName) ==
    IF db = NULL /\ closedAt < 0 THEN "NotOpen"
    ELSE IF db = NULL THEN "issued"
    ELSE IF transactionOutcome(db, storeName) # "ok"
      THEN transactionOutcome(db, storeName)
    ELSE IF RequestOutcome(RequestOf(op), storeName) # "ok"
      THEN RequestOutcome(RequestOf(op), storeName)
    ELSE "issued"

\* The shape shared by add, get, put, delete, clear, getAll and count
\* (lines 81-170): the NotOpen check, one transaction on the named store, one
\* request, and the two handlers that settle the promise.
\* Lines 82-88 of add and the same lines of the other six: what the call
\* does before it returns: throw NotOpen, or let transaction() or the request
\* call throw inside the promise executor, or issue the request.
dataOpResult(op, storeName) ==
    IF db = NULL THEN "NotOpen"
    ELSE IF transactionOutcome(db, storeName) # "ok"
      THEN transactionOutcome(db, storeName)
    ELSE IF RequestOutcome(RequestOf(op), storeName) # "ok"
      THEN RequestOutcome(RequestOf(op), storeName)
    ELSE "issued"

\* The promise of the call is kept in slot c, which the caller reuses once
\* the promise it held has settled.
dataOp(c, op, storeName, arg) ==
    /\ calls[c].st # "pending"
    /\ LET res == dataOpResult(op, storeName) IN
       /\ last' = Step(op, storeName, res,
                       CASE res = "NotOpen" -> << >>
                         [] res \in {"InvalidStateError", "NotFoundError"}
                               -> << "transaction" >>
                         [] OTHER -> << "transaction", "objectStore", RequestOf(op) >>)
       /\ IF res = "issued"
            THEN /\ calls' = [calls EXCEPT ![c] =
                       [st |-> "pending", op |-> op, store |-> storeName,
                        arg |-> arg, conn |-> db, scope |-> {storeName},
                        mode |-> Mode(op), result |-> UNDEF, err |-> "-"]]
                 /\ queue' = Append(queue, c)
            ELSE /\ calls' = [calls EXCEPT ![c] = Rejected(op, storeName, arg, res)]
                 /\ UNCHANGED queue
    /\ UNCHANGED << supported, handlesVars, handleVars, openVars, connVars, running,
                    schemaVars, records, keyGen, closedAt >>

add(c, storeName, data) == dataOp(c, "add", storeName, Some(data))
get(c, storeName, key) == dataOp(c, "get", storeName, Some(key))
put(c, storeName, data) == dataOp(c, "put", storeName, Some(data))
delete(c, storeName, key) == dataOp(c, "delete", storeName, Some(key))
clear(c, storeName) == dataOp(c, "clear", storeName, UNDEF)
getAll(c, storeName) == dataOp(c, "getAll", storeName, UNDEF)
count(c, storeName) == dataOp(c, "count", storeName, UNDEF)

\* Engine: transactions whose scopes overlap run in the order created when
\* one of them is read-write.
Runnable(c) ==
    /\ calls[c].st = "pending"
    /\ \A i \in 1..Len(queue) :
          LET e == queue[i] IN
          (\E j \in (i + 1)..Len(queue) : queue[j] = c)
             /\ calls[e].scope \cap calls[c].scope # {}
             => (calls[e].mode = "readonly" /\ calls[c].mode = "readonly")

IsNot(c) == [e \in DataIds |-> e # c]
Dequeue(c) == SelectSeq(queue, LAMBDA e : IsNot(c)[e])

\* Engine: the key of a record written to store name.
HasKeyPath(name) == Val(stores[name]).keyPath # UNDEF
KeyFor(name, data) == IF HasKeyPath(name) THEN data.id ELSE keyGen[name] + 1

RECURSIVE ValuesFrom(_, _)
ValuesFrom(recs, k) ==
    IF k > MaxKey THEN << >>
    ELSE (IF recs[k] = UNDEF THEN << >> ELSE << Val(recs[k]) >>) \o ValuesFrom(recs, k + 1)

\* Engine: whether the request of call c fails on its own data: add of a key
\* that exists, or a key generator that has run out.
ConstraintFails(c) ==
    /\ RequestOf(calls[c].op) \in {"add", "put"}
    /\ LET k == KeyFor(calls[c].store, Val(calls[c].arg)) IN
          \/ k > MaxKey
          \/ RequestOf(calls[c].op) = "add" /\ records[calls[c].store][k] # UNDEF

\* Engine: the result of the request of call c.
RequestResult(c) ==
    LET s == calls[c].store IN
    CASE RequestOf(calls[c].op) = "get"    -> records[s][Val(calls[c].arg)]
      [] RequestOf(calls[c].op) = "getAll" -> ValuesFrom(records[s], 1)
      [] RequestOf(calls[c].op) = "count"  -> << Cardinality({k \in Keys : records[s][k] # UNDEF}) >>
      [] RequestOf(calls[c].op) \in {"add", "put"}
                                -> << KeyFor(s, Val(calls[c].arg)) >>
      [] OTHER                  -> UNDEF

\* Engine: the records of store s after the request of call c.
RecordsAfter(c) ==
    LET s == calls[c].store
        a == calls[c].arg IN
    CASE RequestOf(calls[c].op) \in {"add", "put"} ->
             [records[s] EXCEPT ![KeyFor(s, Val(a))] = a]
      [] RequestOf(calls[c].op) = "delete" -> [records[s] EXCEPT ![Val(a)] = UNDEF]
      [] RequestOf(calls[c].op) = "clear"  -> NoRecords
      [] OTHER                  -> records[s]

\* Mutant: every data call resolves with nothing, as the mutating ones do.
ResolutionVoid(op, result) == UNDEF

\* request.onsuccess of a data call: resolve with request.result for
\* get/getAll/count (lines 103, 155, 168), with nothing for the others.
Resolution(op, result) == IF op \in ReadOps THEN result ELSE UNDEF

\* Mutant: every failed request is reported with put's message.
FailedKindOfPut(op) == "PutFailed"

\* request.onerror of a data call: reject with the operation's message.
FailedKind(op) ==
    CASE op = "add" -> "AddFailed" [] op = "get" -> "GetFailed"
      [] op = "put" -> "PutFailed" [] op = "delete" -> "DeleteFailed"
      [] op = "clear" -> "ClearFailed" [] op = "getAll" -> "GetAllFailed"
      [] OTHER -> "CountFailed"

\* Mutant: one success handler shared by the calls in flight: the success of
\* the request of call c resolves every pending call with its result.
requestSuccessSettlesAll(c) ==
    /\ running = NULL
    /\ Runnable(c)
    /\ ~ConstraintFails(c)
    /\ records' = [records EXCEPT ![calls[c].store] = RecordsAfter(c)]
    /\ keyGen' = keyGen
    /\ calls' = [e \in DataIds |->
                    IF calls[e].st = "pending"
                      THEN [calls[e] EXCEPT !.st = "resolved",
                                            !.result = Resolution(calls[c].op, RequestResult(c))]
                      ELSE calls[e]]
    /\ queue' = << >>
    /\ last' = Step("requestSuccess", calls[c].store, "ok", << >>)
    /\ UNCHANGED << supported, handlesVars, handleVars, openVars, connVars, running,
                    schemaVars, closedAt >>

\* Engine runs the request of call c and fires its success event.
requestSuccess(c) ==
    /\ running = NULL
    /\ Runnable(c)
    /\ ~ConstraintFails(c)
    /\ records' = [records EXCEPT ![calls[c].store] = RecordsAfter(c)]
    /\ keyGen' = IF RequestOf(calls[c].op) \in {"add", "put"}
                      /\ ~HasKeyPath(calls[c].store)
                   THEN [keyGen EXCEPT ![calls[c].store] = @ + 1]
                   ELSE keyGen
    /\ calls' = [calls EXCEPT ![c].st = "resolved",
                              ![c].result = Resolution(calls[c].op, RequestResult(c))]
    /\ queue' = Dequeue(c)
    /\ last' = Step("requestSuccess", calls[c].store, "ok", << >>)
    /\ UNCHANGED << supported, handlesVars, handleVars, openVars, connVars, running,
                    schemaVars, closedAt >>

\* Mutant: an error handler that issues the request again instead of rejecting.
requestErrorRetries(c) ==
    /\ running = NULL
    /\ Runnable(c)
    /\ calls' = calls
    /\ queue' = Append(Dequeue(c), c)
    /\ last' = Step("requestError", calls[c].store, "ok", << RequestOf(calls[c].op) >>)
    /\ UNCHANGED << supported, handlesVars, handleVars, openVars, connVars, running,
                    schemaVars, records, keyGen, closedAt >>

\* Mutant: an error handler that also drops the handle's database reference.
requestErrorClosesHandle(c) ==
    /\ running = NULL
    /\ Runnable(c)
    /\ calls' = [calls EXCEPT ![c].st = "rejected", ![c].err = FailedKind(calls[c].op)]
    /\ queue' = Dequeue(c)
    /\ db' = NULL
    /\ last' = Step("requestError", calls[c].store, "ok", << >>)
    /\ UNCHANGED << supported, handlesVars, upgradeTransaction, openVars, connVars, running,
                    schemaVars, records, keyGen, closedAt >>

\* Engine fails the request of call c (a key that exists, for add; or a
\* failure of its own) and fires its error event; the transaction aborts.
requestError(c) ==
    /\ running = NULL
    /\ Runnable(c)
    /\ calls' = [calls EXCEPT ![c].st = "rejected", ![c].err = FailedKind(calls[c].op)]
    /\ queue' = Dequeue(c)
    /\ last' = Step("requestError", calls[c].store, "ok", << >>)
    /\ UNCHANGED << supported, handlesVars, handleVars, openVars, connVars, running,
                    schemaVars, records, keyGen, closedAt >>

\* ------------------------------------------------------- two instances
\* Two SimpleIDB instances on the one database.  db and upgradeTransaction
\* are instance fields (lines 16-17) and every handler is a closure over the
\* `this` of the open() call that installed it, so each action below is the
\* action of the same name above with the fields of one instance h in place
\* of db and upgradeTransaction.  The engine's side is unchanged.
StepOn(op) ==
    [op |-> op, store |-> "-", result |-> "ok", calls |-> << >>,
     db0 |-> NULL, tx0 |-> NULL, args |-> << >>]

\* h.open(dbName, version, upgradeCallback?): lines 19-40.
openOn(h, version, hasCallback) ==
    /\ nOpens < MaxOpens
    /\ LET r == nOpens + 1 IN
       /\ nOpens' = r
       /\ reqVersion' = [reqVersion EXCEPT ![r] = version]
       /\ reqCallback' = [reqCallback EXCEPT ![r] = hasCallback]
       /\ owner' = [owner EXCEPT ![r] = h]
       /\ IF ~supported
            THEN /\ reqState' = [reqState EXCEPT ![r] = "norequest"]
                 /\ openPromise' = [openPromise EXCEPT ![r] = "rejected:Unsupported"]
            ELSE /\ reqState' = [reqState EXCEPT ![r] = "pending"]
                 /\ openPromise' = [openPromise EXCEPT ![r] = "pending"]
    /\ turn' = h
    /\ last' = StepOn("open")
    /\ UNCHANGED << supported, handleVars, hdb, hctx, invoked, connVars, running,
                    schemaVars, dataVars, closedAt >>

\* request.onsuccess of a request of instance owner[r]: lines 28-32.
onsuccessOn(r) ==
    /\ running = NULL
    /\ \/ /\ EngineReady(r)
          /\ reqVersion[r] = dbVersion
          /\ connNames' = [connNames EXCEPT ![r] = ExistingStores]
          /\ UNCHANGED saved
       \/ /\ reqState[r] = "upgraded"
          /\ connState[r] = "open"
          /\ saved' = NoSaved
          /\ UNCHANGED connNames
    /\ reqState' = [reqState EXCEPT ![r] = "success"]
    /\ connState' = [connState EXCEPT ![r] = "open"]
    /\ hdb' = [hdb EXCEPT ![owner[r]] = r]
    /\ hctx' = [hctx EXCEPT ![owner[r]] = NULL]
    /\ openPromise' = [openPromise EXCEPT ![r] =
                          IF @ = "pending" THEN "resolved" ELSE @]
    /\ turn' = owner[r]
    /\ last' = StepOn("onsuccess")
    /\ UNCHANGED << supported, handleVars, owner, nOpens, reqVersion, reqCallback,
                    invoked, running, dbVersion, stores, dataVars, closedAt >>

\* request.onerror of a request of instance owner[r]: line 27.
onerrorOn(r) ==
    /\ running = NULL
    /\ \/ /\ EngineReady(r)
          /\ reqVersion[r] < dbVersion
       \/ reqState[r] = "aborted"
       \/ /\ reqState[r] = "upgraded"
          /\ connState[r] = "closed"
    /\ reqState' = [reqState EXCEPT ![r] = "error"]
    /\ saved' = IF reqState[r] = "upgraded" THEN NoSaved ELSE saved
    /\ openPromise' = [openPromise EXCEPT ![r] =
                          IF @ = "pending" THEN "rejected:OpenFailed" ELSE @]
    /\ turn' = owner[r]
    /\ last' = StepOn("onerror")
    /\ UNCHANGED << supported, handleVars, hdb, hctx, owner, nOpens, reqVersion,
                    reqCallback, invoked, connVars, running, dbVersion, stores,
                    dataVars, closedAt >>

\* request.onupgradeneeded of a request of instance owner[r]: lines 33-38.
onupgradeneededOn(r) ==
    /\ running = NULL
    /\ StartUpgrade(r)
    /\ hdb' = [hdb EXCEPT ![owner[r]] = r]
    /\ IF reqCallback[r]
         THEN /\ hctx' = [hctx EXCEPT ![owner[r]] = r]
              /\ running' = r
              /\ invoked' = [invoked EXCEPT ![r] = @ + 1]
              /\ reqState' = [reqState EXCEPT ![r] = "upgrading"]
         ELSE /\ hctx' = [hctx EXCEPT ![owner[r]] = NULL]
              /\ running' = NULL
              /\ UNCHANGED invoked
              /\ reqState' = [reqState EXCEPT ![r] = "upgraded"]
    /\ turn' = owner[r]
    /\ last' = StepOn("onupgradeneeded")
    /\ UNCHANGED << supported, handleVars, owner, nOpens, reqVersion, reqCallback,
                    openPromise, stores, dataVars, closedAt >>

\* The upgradeCallback of the running request returns: line 37.
callbackReturnOn ==
    /\ running # NULL
    /\ hctx' = [hctx EXCEPT ![owner[running]] = NULL]
    /\ running' = NULL
    /\ reqState' = [reqState EXCEPT ![running] = "upgraded"]
    /\ turn' = owner[running]
    /\ last' = StepOn("callbackReturn")
    /\ UNCHANGED << supported, handleVars, hdb, owner, nOpens, reqVersion,
                    reqCallback, openPromise, invoked, connVars, schemaVars,
                    dataVars, closedAt >>

\* The upgradeCallback of the running request throws at line 36.
callbackThrowOn ==
    /\ running # NULL
    /\ running' = NULL
    /\ reqState' = [reqState EXCEPT ![running] = "aborted"]
    /\ AbortUpgrade(running)
    /\ turn' = owner[running]
    /\ last' = StepOn("callbackThrow")
    /\ UNCHANGED << supported, handleVars, hdb, hctx, owner, nOpens, reqVersion,
                    reqCallback, openPromise, invoked, calls, queue, closedAt >>

\* Mutant: the database reference is one field shared by all instances.
closeOnShared(h) ==
    /\ hdb' = [g \in Handles |-> NULL]
    /\ connState' = [r \in Requests |->
                        IF \E g \in Handles : hdb[g] = r THEN "closed" ELSE connState[r]]
    /\ turn' = h
    /\ last' = StepOn("close")
    /\ UNCHANGED << supported, handleVars, hctx, owner, openVars, connNames,
                    running, schemaVars, dataVars, closedAt >>

\* h.close(): lines 172-175.
closeOn(h) ==
    /\ hdb' = [hdb EXCEPT ![h] = NULL]
    /\ connState' = IF hdb[h] # NULL
                      THEN [connState EXCEPT ![hdb[h]] = "closed"]
                      ELSE connState
    /\ turn' = h
    /\ last' = StepOn("close")
    /\ UNCHANGED << supported, handleVars, hctx, owner, openVars, connNames,
                    running, schemaVars, dataVars, closedAt >>

Next ==
    \/ \E v \in Versions, cb \in BOOLEAN : open(v, cb)
    \/ \E r \in Requests : onsuccess(r)
    \/ \E r \in Requests : onerror(r)
    \/ \E r \in Requests : onupgradeneeded(r)
    \/ callbackReturn
    \/ callbackThrow
    \/ \E r \in Requests : abortAtCommit(r)
    \/ close
    \/ \E s \in StoreNames, o \in StoreOptionsIn : createStore(s, o)
    \/ \E s \in StoreNames, i \in IndexNames, a \in IndexArgsIn :
          createIndex(s, i, a.keyPath, a.options)

\* Lifecycle and data calls, on one store name and one record.
NextLife ==
    \/ \E v \in Versions, cb \in BOOLEAN : open(v, cb)
    \/ \E r \in Requests : onsuccess(r)
    \/ \E r \in Requests : onerror(r)
    \/ \E r \in Requests : onupgradeneeded(r)
    \/ callbackReturn
    \/ callbackThrow
    \/ \E r \in Requests : abortAtCommit(r)
    \/ close
    \/ \E o \in LifeStoreOptionsIn : createStore("users", o)
    \/ createIndex("users", "email", "email", [unique |-> Some(TRUE), multiEntry |-> UNDEF])
    \/ add(1, "users", [id |-> 1, name |-> "John"])
    \/ get(1, "users", 1)
    \/ put(1, "users", [id |-> 1, name |-> "Jane"])
    \/ delete(1, "users", 1)
    \/ clear(1, "users")
    \/ getAll(1, "users")
    \/ count(1, "users")
    \/ requestSuccess(1)
    \/ requestError(1)

\* Data calls, one at a time (each awaited), on stores declared with the key
\* path "id" in the upgrade of a first open.
KeyPathId == [keyPath |-> Some("id"), autoIncrement |-> UNDEF]

NextData ==
    \/ open(1, TRUE)
    \/ \E r \in Requests : onsuccess(r)
    \/ \E r \in Requests : onupgradeneeded(r)
    \/ callbackReturn
    \/ \E s \in StoreNames : createStore(s, KeyPathId)
    \/ \E s \in StoreNames, d \in DataIn : add(1, s, d)
    \/ \E s \in StoreNames, k \in Keys : get(1, s, k)
    \/ \E s \in StoreNames, d \in DataIn : put(1, s, d)
    \/ \E s \in StoreNames, k \in Keys : delete(1, s, k)
    \/ \E s \in StoreNames : clear(1, s)
    \/ \E s \in StoreNames : getAll(1, s)
    \/ \E s \in StoreNames : count(1, s)
    \/ requestSuccess(1)
    \/ requestError(1)

\* Several data calls in flight at once on one handle (calls that are not
\* awaited one by one), with close() between them.
MultiDataIn == { [id |-> 1, name |-> "John"] }

NextMulti ==
    \/ open(1, TRUE)
    \/ \E r \in Requests : onsuccess(r)
    \/ \E r \in Requests : onupgradeneeded(r)
    \/ callbackReturn
    \/ close
    \/ \E s \in StoreNames : createStore(s, KeyPathId)
    \/ \E c \in DataIds, s \in StoreNames, d \in MultiDataIn : put(c, s, d)
    \/ \E c \in DataIds, s \in StoreNames : get(c, s, 1)
    \/ \E c \in DataIds : requestSuccess(c)
    \/ \E c \in DataIds : requestError(c)

\* Two instances: their opens, the events of their requests, their closes.
NextHandles ==
    \/ \E h \in Handles, v \in Versions, cb \in BOOLEAN : openOn(h, v, cb)
    \/ \E r \in Requests : onsuccessOn(r)
    \/ \E r \in Requests : onerrorOn(r)
    \/ \E r \in Requests : onupgradeneededOn(r)
    \/ callbackReturnOn
    \/ callbackThrowOn
    \/ \E r \in Requests : abortAtCommit(r)
    \/ \E h \in Handles : closeOn(h)

\* Lifecycle and data calls on one store, for the progress of the promises.
NextFair ==
    \/ \E v \in Versions, cb \in BOOLEAN : open(v, cb)
    \/ \E r \in Requests : onsuccess(r)
    \/ \E r \in Requests : onerror(r)
    \/ \E r \in Requests : onupgradeneeded(r)
    \/ callbackReturn
    \/ callbackThrow
    \/ \E r \in Requests : abortAtCommit(r)
    \/ close
    \/ createStore("users", KeyPathId)
    \/ put(1, "users", [id |-> 1, name |-> "John"])
    \/ get(1, "users", 1)
    \/ requestSuccess(1)
    \/ requestError(1)

\* The host runs a handler to its end (the upgrade callback returns or
\* throws), and the engine fires the event of a request it is able to serve:
\* the next event of an open request (lines 27-38 install the handlers), the
\* success or error event of a data request (lines 89-90 and alike).
Fairness ==
    /\ WF_vars(callbackReturn \/ callbackThrow)
    /\ \A r \in Requests : WF_vars(onsuccess(r) \/ onerror(r) \/ onupgradeneeded(r))
    /\ \A c \in DataIds : WF_vars(requestSuccess(c) \/ requestError(c))

Spec == Init /\ [][Next]_vars
SpecLife == Init /\ [][NextLife]_vars
SpecData == Init /\ [][NextData]_vars
SpecHandles == Init /\ [][NextHandles]_vars
SpecFair == Init /\ [][NextFair]_vars /\ Fairness
SpecMulti == Init /\ [][NextMulti]_vars
\* ============================================================== claims
SchemaOps == {"createStore", "createIndex"}
CallOps == SchemaOps \cup DataOps

\* The handle's connection always lists the stores the database has.
HandleSeesSchema == db # NULL => connNames[db] = ExistingStores

\* C1 (as claimed): on an open handle with no upgrade context, createIndex
\* fails with IndexCreationOutsideUpgrade for every store name, whether or
\* not the store exists.
C1_OutsideUpgradeForEveryStore ==
    (last.op = "createIndex" /\ last.db0 # NULL /\ last.tx0 = NULL)
        => last.result = "OutsideUpgrade"

\* C1 (amended): on an open handle with no upgrade context, createIndex
\* declares no index and fails: with IndexCreationOutsideUpgrade when the
\* named store exists, with StoreNotFound when it does not.
C1_OutsideUpgradeOrStoreNotFound ==
    [][(last'.op = "createIndex" /\ db # NULL /\ upgradeTransaction = NULL)
          => /\ last'.result = IF stores[last'.store] # NoStore
                                 THEN "OutsideUpgrade" ELSE "StoreNotFound"
             /\ last'.calls = << >>
             /\ stores' = stores]_vars

C1_Witness ==
    /\ last.op = "createIndex" /\ last.db0 # NULL /\ last.tx0 = NULL
    /\ last.result = "OutsideUpgrade"
    /\ reqState[last.db0] = "success"

\* C2: whenever no upgrade callback of the handle is executing, the handle's
\* upgrade context is null.
C2_ContextNullOutsideCallback == running = NULL => upgradeTransaction = NULL
\* C3 (as claimed): until an open call has resolved, every schema or data
\* call fails with NotOpen, also after the upgrade-needed event of a pending
\* open.
C3_NotOpenUntilOpenResolved ==
    (last.op \in CallOps /\ \A r \in Requests : openPromise[r] # "resolved")
        => last.result = "NotOpen"

\* C3 (amended): until an open request of the handle has delivered an
\* upgrade-needed or success event, every schema or data call fails with
\* NotOpen.
C3_NotOpenUntilFirstEvent ==
    (last.op \in CallOps /\ \A r \in Requests : connState[r] = "none")
        => last.result = "NotOpen"

C3_Witness ==
    /\ last.op \in DataOps /\ last.result = "NotOpen"
    /\ \E r \in Requests : reqState[r] = "pending"
    /\ \A r \in Requests : connState[r] = "none"

\* C4: after close(), a schema or data call is carried out only on a database
\* reference obtained by an open call issued after that close: an open issued
\* before the close does not make the handle usable again.
C4_NoUseAfterCloseUntilFreshOpen ==
    (closedAt >= 0 /\ last.op \in CallOps /\ last.result \in {"ok", "noop", "issued"})
        => last.db0 > closedAt

\* C5: at most one engine connection obtained by the handle is open at a time.
C5_AtMostOneOpenConnection == Cardinality(OpenConns) <= 1

\* C6: once the engine has reported an error for an open request, and no open
\* request has succeeded or is being served, every schema or data call fails
\* with NotOpen.
C6_FailedOpenLeavesHandleClosed ==
    (/\ last.op \in CallOps
     /\ \E r \in Requests : reqState[r] = "error"
     /\ \A r \in Requests : reqState[r] \in {"unused", "norequest", "pending", "error"})
        => last.result = "NotOpen"

\* C7: a createStore or createIndex call changes the schema, or completes as
\* a declaration, only while the handle's upgrade context is set.
C7_SchemaChangeOnlyInUpgrade ==
    [][(last'.op \in SchemaOps /\ (stores' # stores \/ last'.result = "ok"))
          => upgradeTransaction # NULL]_vars

C7_Witness ==
    /\ last.op = "createStore" /\ last.db0 # NULL /\ last.tx0 = NULL
    /\ last.result \in {"InvalidStateError", "TransactionInactiveError"}
    /\ \E s \in StoreNames : stores[s] # NoStore

\* C8: createStore of a name the handle's database already has is a no-op: no
\* error, no createObjectStore call, the schema and the records unchanged.
C8_CreateStoreIdempotent ==
    [][(last'.op = "createStore" /\ db # NULL /\ stores[last'.store] # NoStore)
          => /\ last'.result = "noop"
             /\ last'.calls = << >>
             /\ stores' = stores
             /\ records' = records
             /\ keyGen' = keyGen]_vars

C8_Witness ==
    /\ last.op = "createStore" /\ last.result = "noop"
    /\ \E k \in Keys : records[last.store][k] # UNDEF

\* C9: inside an upgrade callback, on a handle that holds the upgrading
\* database, createIndex of an index name the store already has is a no-op:
\* no error, no engine createIndex call, the index as first declared.
C9_CreateIndexIdempotent ==
    [][(/\ last'.op = "createIndex"
        /\ running # NULL /\ db = running
        /\ stores[last'.store] # NoStore
        /\ \A i \in IndexNames : Val(stores[last'.store]).indexes[i] # NoIndex)
          => /\ last'.result = "noop"
             /\ last'.calls = << "objectStore" >>
             /\ stores' = stores]_vars

C9_Witness ==
    /\ last.op = "createIndex" /\ last.result = "noop"
    /\ running # NULL

\* C10: close() raises nothing; with a database it issues one engine close and
\* clears the reference; with none it issues no engine call and changes
\* nothing, so a second close() in a row leaves the state of the first.
C10_CloseSafe ==
    [][last'.op = "close"
          => /\ last'.result = "ok"
             /\ db' = NULL
             /\ last'.calls = IF db # NULL THEN << "close" >> ELSE << >>
             /\ db # NULL => connState'[db] = "closed"
             /\ db = NULL => UNCHANGED << upgradeTransaction, openVars, connVars,
                                          running, schemaVars, dataVars >>]_vars

C10_Witness ==
    /\ last.op = "close" /\ last.db0 = NULL
    /\ \E r \in Requests : reqState[r] = "success" /\ connState[r] = "closed"

\* C11: when the host does not expose the storage capability, open fails
\* with UnsupportedEnvironment for every version and callback, issues no
\* engine open request, leaves the database reference and the upgrade
\* context unchanged, and no upgrade callback is ever invoked.
C11_UnsupportedEnvironment ==
    [][~supported =>
          /\ running' = NULL
          /\ \A r \in Requests : reqState'[r] \in {"unused", "norequest"}
          /\ last'.op = "open" =>
                /\ last'.result = "Unsupported"
                /\ last'.calls = << >>
                /\ openPromise'[nOpens'] = "rejected:Unsupported"
                /\ UNCHANGED handleVars]_vars
C11_Witness ==
    /\ ~supported
    /\ last.op = "open"
    /\ last.result = "Unsupported"
    /\ nOpens = MaxOpens
    /\ \E r \in Requests : reqCallback[r] /\ reqVersion[r] = MaxVersion

\* C12: for one open call with a callback, the callback is invoked once in
\* each upgrade-needed event of its request and in no other step; a request
\* gets at most one such event, and none unless its version exceeds the
\* stored one; the open promise resolves only in a step where the callback
\* is not executing, after it has returned.
C12_CallbackOncePerUpgrade ==
    [][\A r \in Requests :
          /\ invoked'[r] =
                IF last'.op = "onupgradeneeded" /\ db' = r /\ reqCallback[r]
                  THEN invoked[r] + 1 ELSE invoked[r]
          /\ invoked'[r] <= 1
          /\ (last'.op = "onupgradeneeded" /\ db' = r) =>
                /\ reqState[r] = "pending"
                /\ reqVersion[r] > dbVersion
                /\ running' = (IF reqCallback[r] THEN r ELSE NULL)
          /\ (reqState'[r] = "pending" => reqState[r] \in {"unused", "pending"})
          /\ (openPromise'[r] = "resolved" /\ openPromise[r] # "resolved") =>
                /\ running = NULL
                /\ running' = NULL
                /\ reqState[r] \in {"pending", "upgraded"}
                /\ invoked[r] = (IF reqState[r] = "upgraded" /\ reqCallback[r]
                                   THEN 1 ELSE 0)]_vars
C12_Witness ==
    /\ \E r \in Requests :
          openPromise[r] = "resolved" /\ reqCallback[r] /\ invoked[r] = 1
    /\ \E r \in Requests :
          openPromise[r] = "resolved" /\ reqCallback[r] /\ invoked[r] = 0

\* C13: when the engine delivers success for an open request, the handle's
\* database reference is that request's, the upgrade context is null and the
\* promise of that open call is resolved, whether the request was still
\* pending (no upgrade) or had been through an upgrade.
C13_SuccessStoresReference ==
    [][\A r \in Requests :
          (reqState'[r] = "success" /\ reqState[r] # "success") =>
             /\ last'.op = "onsuccess"
             /\ reqState[r] \in {"pending", "upgraded"}
             /\ db' = r
             /\ connState'[r] = "open"
             /\ upgradeTransaction' = NULL
             /\ openPromise[r] = "pending"
             /\ openPromise'[r] = "resolved"]_vars
C13_Witness ==
    /\ last.op = "onsuccess"
    /\ db = 2
    /\ invoked[2] = 1
    /\ connState[1] = "closed"
    /\ reqState[1] = "success"
    /\ invoked[1] = 0

\* The promise of data call c settles in this step.
Resolves(c) == calls[c].st = "pending" /\ calls'[c].st = "resolved"
Rejects(c) == calls[c].st = "pending" /\ calls'[c].st = "rejected"
Present(s) == {k \in Keys : records[s][k] # UNDEF}

\* C14: in a store with a key path, a put that resolves has stored its
\* record under the record's key and touched no other key, a get that
\* resolves yields what is stored under its key, and records change in no
\* step other than the resolution of a call; so after awaited puts a get of
\* k resolves with the record of the latest put whose key is k.
C14_ReadYourWrites ==
    [][/\ \A c \in DataIds :
            (Resolves(c) /\ HasKeyPath(calls[c].store)) =>
               LET s == calls[c].store
                   a == calls[c].arg IN
               /\ calls[c].op = "put" =>
                     /\ records'[s][Val(a).id] = a
                     /\ \A k \in Keys \ {Val(a).id} : records'[s][k] = records[s][k]
                     /\ \A t \in StoreNames \ {s} : records'[t] = records[t]
                     /\ calls'[c].result = UNDEF
               /\ calls[c].op = "get" =>
                     /\ calls'[c].result = records[s][Val(a)]
                     /\ records' = records
       /\ (\A c \in DataIds : ~Resolves(c)) => records' = records]_vars
C14_Witness ==
    /\ last.op = "requestSuccess"
    /\ calls[1].op = "get"
    /\ calls[1].st = "resolved"
    /\ calls[1].store = "users"
    /\ calls[1].result = Some([id |-> 1, name |-> "Jane"])
    /\ records["users"][2] # UNDEF
    /\ records["posts"][1] = Some([id |-> 1, name |-> "John"])

\* C15: an add whose record's key is already in the store never resolves:
\* it rejects with AddFailed and the stored records stay as they were; a put
\* with such a key is not refused for the key, and when it resolves the
\* stored record for the key is the put record, which a get then returns.
C15_AddDuplicateFailsPutOverwrites ==
    [][/\ \A c \in DataIds :
          (/\ calls[c].st = "pending"
           /\ calls[c].op \in {"add", "put"}
           /\ HasKeyPath(calls[c].store)
           /\ records[calls[c].store][Val(calls[c].arg).id] # UNDEF) =>
             LET s == calls[c].store
                 a == calls[c].arg IN
             /\ calls[c].op = "add" =>
                   /\ ~Resolves(c)
                   /\ Rejects(c) => calls'[c].err = "AddFailed" /\ records' = records
             /\ calls[c].op = "put" =>
                   /\ Runnable(c) /\ ~ConstraintFails(c)
                   /\ Resolves(c) => records'[s][Val(a).id] = a
       /\ \A c \in DataIds :
             (Resolves(c) /\ calls[c].op = "get") =>
                calls'[c].result = records[calls[c].store][Val(calls[c].arg)]]_vars
C15_Witness ==
    /\ last.op = "requestError"
    /\ calls[1].op = "add"
    /\ calls[1].st = "rejected"
    /\ calls[1].err = "AddFailed"
    /\ calls[1].arg = Some([id |-> 1, name |-> "Jane"])
    /\ records[calls[1].store][1] = Some([id |-> 1, name |-> "John"])

\* C16: a delete is not refused for its key, whether or not the key has a
\* record; when it resolves the key has no record (so a get of it yields the
\* absent result), its promise carries no value, and every other key of the
\* store and every other store is as before.
C16_DeleteRemovesOnlyItsKey ==
    [][\A c \in DataIds :
          (calls[c].st = "pending" /\ calls[c].op = "delete") =>
             LET s == calls[c].store
                 k == Val(calls[c].arg) IN
             /\ Runnable(c) /\ ~ConstraintFails(c)
             /\ Resolves(c) =>
                   /\ records'[s][k] = UNDEF
                   /\ \A j \in Keys \ {k} : records'[s][j] = records[s][j]
                   /\ \A t \in StoreNames \ {s} : records'[t] = records[t]
                   /\ calls'[c].result = UNDEF
             /\ Rejects(c) => records' = records]_vars
C16_Witness ==
    /\ last.op = "requestSuccess"
    /\ calls[1].op = "delete"
    /\ calls[1].st = "resolved"
    /\ calls[1].arg = Some(1)
    /\ records[calls[1].store][1] = UNDEF
    /\ records[calls[1].store][2] # UNDEF

\* C17: a count that resolves yields the number of records in the store and
\* a getAll that resolves yields a sequence of that length holding exactly
\* the stored records (0 and the empty sequence for an empty store), neither
\* changing a record; an add that resolves has put its record under a key
\* that had none and has left the other keys alone, so N adds with distinct
\* keys into an empty store make the count N.
C17_GetAllAndCount ==
    [][\A c \in DataIds :
          (Resolves(c) /\ HasKeyPath(calls[c].store)) =>
             LET s == calls[c].store
                 a == calls[c].arg
                 res == calls'[c].result IN
             /\ calls[c].op = "count" =>
                   /\ res = << Cardinality(Present(s)) >>
                   /\ records' = records
             /\ calls[c].op = "getAll" =>
                   /\ Len(res) = Cardinality(Present(s))
                   /\ {res[i] : i \in 1..Len(res)} =
                         {Val(records[s][k]) : k \in Present(s)}
                   /\ records' = records
             /\ calls[c].op = "add" =>
                   /\ records[s][Val(a).id] = UNDEF
                   /\ records'[s][Val(a).id] = a
                   /\ \A k \in Keys \ {Val(a).id} : records'[s][k] = records[s][k]
                   /\ \A t \in StoreNames \ {s} : records'[t] = records[t]]_vars
C17_Witness ==
    /\ last.op = "requestSuccess"
    /\ calls[1].op = "getAll"
    /\ calls[1].st = "resolved"
    /\ calls[1].result = << [id |-> 1, name |-> "John"], [id |-> 2, name |-> "Jane"] >>
    /\ \E t \in StoreNames \ {calls[1].store} : stores[t] # NoStore /\ Present(t) = {}

\* C18: a clear is not refused whether the store has records or none; when
\* it resolves the store has no record under any key (every get yields the
\* absent result, the count is 0), its promise carries no value, and the
\* records of every other store are as before.
C18_ClearEmptiesOnlyItsStore ==
    [][\A c \in DataIds :
          (calls[c].st = "pending" /\ calls[c].op = "clear") =>
             LET s == calls[c].store IN
             /\ Runnable(c) /\ ~ConstraintFails(c)
             /\ Resolves(c) =>
                   /\ \A k \in Keys : records'[s][k] = UNDEF
                   /\ Cardinality({k \in Keys : records'[s][k] # UNDEF}) = 0
                   /\ \A t \in StoreNames \ {s} : records'[t] = records[t]
                   /\ calls'[c].result = UNDEF
             /\ Rejects(c) => records' = records]_vars
C18_Witness ==
    /\ last.op = "requestSuccess"
    /\ calls[1].op = "clear"
    /\ calls[1].st = "resolved"
    /\ Present(calls[1].store) = {}
    /\ \E t \in StoreNames \ {calls[1].store} : Present(t) = Keys

\* C19: a get of a key that has no record in an existing store is not
\* refused by the engine; when it settles no record has changed, and when it
\* resolves its value is the absent (undefined) result.
C19_GetAbsentResolvesUndefined ==
    [][\A c \in DataIds :
          (/\ calls[c].st = "pending"
           /\ calls[c].op = "get"
           /\ records[calls[c].store][Val(calls[c].arg)] = UNDEF) =>
             /\ stores[calls[c].store] # NoStore
             /\ Runnable(c) /\ ~ConstraintFails(c)
             /\ Resolves(c) => calls'[c].result = UNDEF
             /\ (Resolves(c) \/ Rejects(c)) => records' = records]_vars
C19_Witness ==
    /\ last.op = "requestSuccess"
    /\ calls[1].op = "get"
    /\ calls[1].st = "resolved"
    /\ calls[1].result = UNDEF
    /\ records[calls[1].store][Val(calls[1].arg)] = UNDEF
    /\ Present(calls[1].store) # {}

\* The handle holds the open connection of an open request that succeeded.
HandleOpen == db # NULL /\ reqState[db] = "success" /\ connState[db] = "open"

\* C20: on an open handle, each of the seven data calls on a store name the
\* database does not have is rejected with the engine's NotFoundError, raised
\* by transaction(): no store accessor is obtained, no request is issued or
\* queued, no record changes; the answer is neither NotOpen nor a success.
C20_UndeclaredStoreNotFound ==
    [][(last'.op \in DataOps /\ HandleOpen /\ stores[last'.store] = NoStore) =>
          /\ last'.result = "NotFoundError"
          /\ last'.calls = << "transaction" >>
          /\ records' = records
          /\ queue' = queue
          /\ \A c \in DataIds :
                \/ calls'[c] = calls[c]
                \/ /\ calls'[c].st = "rejected"
                   /\ calls'[c].err = "NotFoundError"
                   /\ calls'[c].op = last'.op
                   /\ calls'[c].store = last'.store]_vars
C20_Witness ==
    /\ last.op \in DataOps
    /\ last.result = "NotFoundError"
    /\ HandleOpen
    /\ last.db0 = db
    /\ stores[last.store] = NoStore
    /\ calls[1].st = "rejected" /\ calls[1].err = "NotFoundError"
    /\ \E t \in StoreNames : Present(t) # {}

\* C21 (as claimed): every data call on an open handle starts one
\* transaction and issues one request in it.
C21_OneTransactionOneRequest ==
    (last.op \in DataOps /\ last.db0 # NULL /\ last.db0 = db /\ HandleOpen)
        => last.calls = << "transaction", "objectStore", last.op >>

\* C21 (amended): every data call on an open handle makes exactly one
\* transaction() call, scoped to exactly the named store, read-only for get,
\* getAll and count and read-write for add, put, delete and clear; when the
\* store exists it then makes exactly one request call, of its own kind, in
\* that transaction; when the store does not exist the engine refuses the
\* transaction and no request is issued.
C21_OneTransactionCall ==
    [][(last'.op \in DataOps /\ HandleOpen) =>
          /\ last'.calls = IF stores[last'.store] # NoStore
                             THEN << "transaction", "objectStore", last'.op >>
                             ELSE << "transaction" >>
          /\ \E c \in DataIds :
                /\ calls'[c].op = last'.op
                /\ calls'[c].store = last'.store
                /\ calls'[c].scope = {last'.store}
                /\ calls'[c].mode = IF last'.op \in {"get", "getAll", "count"}
                                      THEN "readonly" ELSE "readwrite"
                /\ calls'[c].st = "pending" <=> last'.result = "issued"
                /\ calls'[c].st = "pending" => queue' = Append(queue, c)
                /\ calls'[c].st # "pending" => queue' = queue
                /\ \A e \in DataIds \ {c} : calls'[e] = calls[e]]_vars
C21_Witness ==
    /\ last.op = "delete"
    /\ last.result = "issued"
    /\ HandleOpen
    /\ calls[1].st = "pending"
    /\ calls[1].mode = "readwrite"
    /\ calls[1].scope = {"posts"}
    /\ Present("users") # {}

\* C22: a promise of open or of a data call that has settled never changes
\* (a slot changes again only when a new call puts a new promise in it); the
\* open promise is resolved by the success event of its request and rejected
\* with OpenFailed by its error event; a data promise is resolved only by
\* the success event, with the request's result for get, getAll and count and
\* with no value for add, put, delete and clear, and rejected only by the
\* error event, with the error kind of its operation.
C22_SettleOnce ==
    [][/\ \A r \in Requests :
            /\ openPromise[r] \in {"resolved", "rejected:Unsupported", "rejected:OpenFailed"}
                  => openPromise'[r] = openPromise[r]
            /\ (reqState'[r] = "success" /\ reqState[r] # "success")
                  => openPromise[r] = "pending" /\ openPromise'[r] = "resolved"
            /\ (reqState'[r] = "error" /\ reqState[r] # "error")
                  => openPromise[r] = "pending" /\ openPromise'[r] = "rejected:OpenFailed"
            /\ (openPromise[r] = "pending" /\ openPromise'[r] # "pending")
                  => last'.op \in {"onsuccess", "onerror"}
       /\ \A c \in DataIds :
            /\ (calls[c].st \in {"resolved", "rejected"} /\ calls'[c] # calls[c])
                  => last'.op \in DataOps /\ calls'[c].op = last'.op
            /\ calls[c].st = "pending" =>
                  \/ calls'[c] = calls[c]
                  \/ /\ last'.op = "requestSuccess"
                     /\ calls'[c] = [calls[c] EXCEPT
                           !.st = "resolved",
                           !.result = IF calls[c].op \in {"get", "getAll", "count"}
                                        THEN RequestResult(c) ELSE UNDEF]
                  \/ /\ last'.op = "requestError"
                     /\ calls'[c] = [calls[c] EXCEPT
                           !.st = "rejected",
                           !.err = CASE calls[c].op = "add" -> "AddFailed"
                                     [] calls[c].op = "get" -> "GetFailed"
                                     [] calls[c].op = "put" -> "PutFailed"
                                     [] calls[c].op = "delete" -> "DeleteFailed"
                                     [] calls[c].op = "clear" -> "ClearFailed"
                                     [] calls[c].op = "getAll" -> "GetAllFailed"
                                     [] calls[c].op = "count" -> "CountFailed"]]_vars
C22_Witness ==
    /\ last.op = "requestError"
    /\ calls[1].st = "rejected"
    /\ calls[1].err = "GetAllFailed"
    /\ openPromise[1] = "rejected:OpenFailed"
    /\ openPromise[2] = "resolved"

\* The handle holds the connection of an open issued after the latest close.
Reopened == HandleOpen /\ closedAt >= 0 /\ db > closedAt

\* C23: close() leaves the database's version, stores and records as they
\* are; when an open issued after the close succeeds the handle holds its
\* open connection, which lists the stores the database has; on the reopened
\* handle a data call on such a store is issued, not refused, and a get that
\* resolves yields the stored record.
C23_Reopen ==
    [][/\ last'.op = "close" =>
             UNCHANGED << dbVersion, stores, records, keyGen >>
       /\ \A r \in Requests :
             (reqState'[r] = "success" /\ reqState[r] # "success"
                 /\ closedAt >= 0 /\ r > closedAt) =>
                /\ db' = r
                /\ connState'[r] = "open"
                /\ connNames'[r] = {s \in StoreNames : stores[s] # NoStore}
                /\ UNCHANGED << stores, records >>
       /\ (last'.op \in DataOps /\ Reopened /\ stores[last'.store] # NoStore
             /\ RequestOutcome(last'.op, last'.store) = "ok") =>
                last'.result = "issued"
       /\ \A c \in DataIds :
             (Reopened /\ Resolves(c) /\ calls[c].op = "get") =>
                calls'[c].result = records[calls[c].store][Val(calls[c].arg)]]_vars
C23_Witness ==
    /\ last.op = "requestSuccess"
    /\ Reopened
    /\ calls[1].op = "get"
    /\ calls[1].st = "resolved"
    /\ calls[1].conn = db
    /\ calls[1].result = Some([id |-> 1, name |-> "John"])
    /\ dbVersion = 1

\* C24: two instances never hold the same database reference; the reference
\* and the upgrade context an instance holds come from a request its own
\* open() issued; and a step of one instance (its open, its close, an event
\* or the upgrade callback of one of its requests) changes neither field of
\* the other instance.
C24_HandlesIndependent ==
    [][/\ \A g \in Handles, h \in Handles :
             (g # h /\ hdb'[g] # NULL) => hdb'[g] # hdb'[h]
       /\ \A h \in Handles :
             /\ hdb'[h] # NULL => owner'[hdb'[h]] = h
             /\ hctx'[h] # NULL => owner'[hctx'[h]] = h
             /\ (hdb'[h] # hdb[h] \/ hctx'[h] # hctx[h]) => turn' = h]_vars
C24_Witness ==
    /\ hdb["a"] # NULL
    /\ hdb["b"] # NULL
    /\ connState[hdb["a"]] = "open"
    /\ connState[hdb["b"]] = "open"
    /\ last.op = "onsuccess"

\* C25: inside an upgrade callback, createIndex on a store that exists
\* (whether it existed before the upgrade or was created in this callback)
\* and has no index of that name succeeds with one objectStore() and one
\* createIndex() call, after which the store has that index with the given
\* key path, unique and multiEntry as given, false when omitted; the store's
\* own configuration and every other store are unchanged.
C25_CreateIndexDeclares ==
    [][(/\ last'.op = "createIndex"
        /\ running # NULL
        /\ db = running
        /\ stores[last'.store] # NoStore
        /\ \A i \in IndexNames : Val(stores[last'.store]).indexes[i] = NoIndex) =>
          /\ last'.result = "ok"
          /\ last'.calls = << "objectStore", "createIndex" >>
          /\ LET s == last'.store
                 i == last'.args[1]
                 kp == last'.args[2]
                 o == last'.args[3] IN
             /\ Val(stores'[s]).indexes[i] =
                   << [keyPath |-> kp,
                       unique |-> IF o.unique = UNDEF THEN FALSE ELSE o.unique[1],
                       multiEntry |-> IF o.multiEntry = UNDEF THEN FALSE
                                                              ELSE o.multiEntry[1]] >>
             /\ \A j \in IndexNames \ {i} :
                   Val(stores'[s]).indexes[j] = Val(stores[s]).indexes[j]
             /\ Val(stores'[s]).keyPath = Val(stores[s]).keyPath
             /\ Val(stores'[s]).autoIncrement = Val(stores[s]).autoIncrement
             /\ \A t \in StoreNames \ {s} : stores'[t] = stores[t]]_vars
C25_Witness ==
    /\ last.op = "createIndex"
    /\ last.result = "ok"
    /\ running # NULL
    /\ saved.stores[last.store] = NoStore
    /\ Val(stores[last.store]).indexes["email"] =
          Some([keyPath |-> "tags", unique |-> FALSE, multiEntry |-> TRUE])

\* C26: inside an upgrade callback, createStore for a name the database
\* does not have succeeds with one createObjectStore() call, after which the
\* database has that store with the given key path (none when omitted), the
\* given auto-increment flag (off when omitted) and no index, every other
\* store being unchanged; the handle's connection lists the new store, so
\* createIndex finds it, and the connection of an open that succeeded lists
\* every store the database has, so data calls find it.
C26_CreateStoreDeclares ==
    [][/\ (/\ last'.op = "createStore"
           /\ running # NULL
           /\ db = running
           /\ stores[last'.store] = NoStore) =>
             /\ last'.result = "ok"
             /\ last'.calls = << "createObjectStore" >>
             /\ LET s == last'.store
                    o == last'.args[1] IN
                /\ stores'[s] =
                      << [keyPath |-> o.keyPath,
                          autoIncrement |-> IF o.autoIncrement = UNDEF THEN FALSE
                                              ELSE o.autoIncrement[1],
                          indexes |-> [i \in IndexNames |-> NoIndex]] >>
                /\ \A t \in StoreNames \ {s} : stores'[t] = stores[t]
                /\ connNames'[db] = connNames[db] \cup {s}
                /\ db' = db /\ s \in connNames'[db']
       /\ \A r \in Requests :
             (reqState'[r] = "success" /\ connState'[r] = "open") =>
                connNames'[r] = {s \in StoreNames : stores'[s] # NoStore}]_vars
C26_Witness ==
    /\ last.op = "createStore"
    /\ last.result = "ok"
    /\ running # NULL
    /\ stores[last.store] =
          Some([keyPath |-> UNDEF, autoIncrement |-> TRUE,
                indexes |-> [i \in IndexNames |-> NoIndex]])
    /\ \E t \in StoreNames \ {last.store} :
          stores[t] # NoStore /\ Val(stores[t]).keyPath = Some("id")

\* C27: createIndex tests its preconditions in a fixed order: with no
\* database reference it fails with NotOpen; else, when the named store does
\* not exist, with StoreNotFound; else, with no upgrade context, with
\* IndexCreationOutsideUpgrade.  A call failing with one of the three makes
\* no engine call and leaves the schema as it is.
C27_CreateIndexCheckOrder ==
    [][last'.op = "createIndex" =>
          /\ db = NULL => last'.result = "NotOpen"
          /\ (db # NULL /\ stores[last'.store] = NoStore)
                => last'.result = "StoreNotFound"
          /\ (db # NULL /\ stores[last'.store] # NoStore /\ upgradeTransaction = NULL)
                => last'.result = "OutsideUpgrade"
          /\ (db # NULL /\ stores[last'.store] # NoStore /\ upgradeTransaction # NULL)
                => last'.result \notin {"NotOpen", "StoreNotFound", "OutsideUpgrade"}
          /\ last'.result \in {"NotOpen", "StoreNotFound", "OutsideUpgrade"}
                => /\ last'.calls = << >>
                   /\ UNCHANGED << stores, dbVersion, connNames >>]_vars
C27_Witness ==
    /\ last.op = "createIndex"
    /\ last.result = "StoreNotFound"
    /\ last.db0 # NULL
    /\ last.tx0 = NULL
    /\ last.calls = << >>
    /\ stores[last.store] = NoStore
    /\ \E t \in StoreNames : stores[t] # NoStore

\* C28: with no database reference, each of add, get, put, delete, clear,
\* getAll and count returns a promise rejected with NotOpen, and createStore
\* and createIndex throw NotOpen; the call starts no engine transaction,
\* issues no engine request, and leaves the handle, the schema and the
\* stored records as they were.
C28_NotOpenWithoutReference ==
    [][(last'.op \in CallOps /\ db = NULL) =>
          /\ last'.result = "NotOpen"
          /\ last'.calls = << >>
          /\ UNCHANGED << db, upgradeTransaction, records, keyGen, queue,
                          stores, dbVersion, connState, connNames, reqState >>
          /\ last'.op \in DataOps =>
                \E c \in DataIds :
                   /\ calls' = [calls EXCEPT ![c] = calls'[c]]
                   /\ calls'[c].st = "rejected"
                   /\ calls'[c].err = "NotOpen"
                   /\ calls'[c].op = last'.op
          /\ last'.op \in SchemaOps => calls' = calls]_vars
C28_Witness ==
    /\ last.op \in DataOps
    /\ last.result = "NotOpen"
    /\ last.db0 = NULL
    /\ closedAt >= 0
    /\ \E c \in DataIds : calls[c].st = "rejected" /\ calls[c].err = "NotOpen"
    /\ \E s \in StoreNames, k \in Keys : records[s][k] # UNDEF

\* C29: when the engine reports the failure of a data request, the promise
\* of that call is rejected with the error kind of its operation, no engine
\* call is made for it again, the handle keeps the database reference it
\* has, and the records of the store are those stored before.
C29_RequestFailureRejects ==
    [][last'.op = "requestError" =>
          \E c \in DataIds :
             /\ calls[c].st = "pending"
             /\ calls' = [calls EXCEPT ![c] = calls'[c]]
             /\ calls'[c].st = "rejected"
             /\ << calls[c].op, calls'[c].err >> \in
                   {<< "add", "AddFailed" >>, << "get", "GetFailed" >>,
                    << "put", "PutFailed" >>, << "delete", "DeleteFailed" >>,
                    << "clear", "ClearFailed" >>, << "getAll", "GetAllFailed" >>,
                    << "count", "CountFailed" >>}
             /\ last'.calls = << >>
             /\ \A i \in 1..Len(queue') : queue'[i] # c
             /\ Len(queue') = Len(queue) - 1
             /\ UNCHANGED << db, upgradeTransaction, connState, connNames,
                             records, keyGen, stores, dbVersion >>]_vars
C29_Witness ==
    /\ last.op = "requestError"
    /\ calls[1].st = "rejected"
    /\ calls[1].op = "put"
    /\ calls[1].err = "PutFailed"
    /\ HandleOpen
    /\ calls[1].conn = db
    /\ queue = << >>
    /\ records["users"][1] = Some([id |-> 1, name |-> "John"])

\* The engine has accepted the open request r and owes it an event; the
\* engine has fired the success or the error event of r.
Accepted(r) == reqState[r] \in {"pending", "upgrading", "upgraded", "aborted"}
Delivered(r) == reqState[r] \in {"success", "error"}

\* Engine: the request r, or one issued before it, needs an upgrade that
\* waits for an open connection to be closed; the engine fires no success or
\* error event for r meanwhile.
WaitsForClose(r) ==
    \E q \in Requests :
       /\ q <= r
       /\ EngineReady(q)
       /\ reqVersion[q] > dbVersion
       /\ OpenConns # {}

\* C30: every data call that is pending is eventually settled, also when
\* close() is called while it is in flight; and every open call whose request
\* the engine eventually answers with a success or an error event is
\* eventually settled, also when its upgrade callback throws.  The engine
\* answers every open request that does not wait for ever for a connection
\* to be closed.
C30_EveryCallSettles ==
    /\ \A c \in DataIds : (calls[c].st = "pending") ~> (calls[c].st # "pending")
    /\ \A r \in Requests :
          (Accepted(r) ~> Delivered(r))
             => ((openPromise[r] = "pending") ~> (openPromise[r] # "pending"))
    /\ \A r \in Requests :
          ([]<>~WaitsForClose(r))
             => ((openPromise[r] = "pending") ~> (openPromise[r] # "pending"))
C30_Witness ==
    /\ last.op = "requestSuccess"
    /\ calls[1].st = "resolved"
    /\ calls[1].conn # NULL
    /\ connState[calls[1].conn] = "closed"
    /\ \E r \in Requests :
          /\ invoked[r] = 1
          /\ reqState[r] = "error"
          /\ openPromise[r] = "rejected:OpenFailed"

\* C31: with several data calls in flight on one handle, a step settles at
\* most one call; a pending call is settled only by the success or the
\* error event of its own request, with the result of that request or with
\* the error of its own operation; a settled call keeps its outcome until
\* the caller reuses its slot for a new call.
C31_CallsSettleIndependently ==
    [][\A c \in DataIds :
          /\ (calls[c].st = "pending" /\ calls'[c] # calls[c]) =>
                /\ last'.op \in {"requestSuccess", "requestError"}
                /\ Runnable(c)
                /\ \A e \in DataIds \ {c} : calls'[e] = calls[e]
                /\ calls'[c].st \in {"resolved", "rejected"}
                /\ last'.op = "requestSuccess" =>
                      calls'[c] = [calls[c] EXCEPT
                                      !.st = "resolved",
                                      !.result = IF calls[c].op = "get"
                                                   THEN records[calls[c].store][Val(calls[c].arg)]
                                                   ELSE UNDEF]
                /\ last'.op = "requestError" =>
                      calls'[c] = [calls[c] EXCEPT
                                      !.st = "rejected",
                                      !.err = IF calls[c].op = "get" THEN "GetFailed"
                                              ELSE "PutFailed"]
          /\ (calls[c].st \in {"resolved", "rejected"} /\ calls'[c] # calls[c]) =>
                /\ last'.op \in DataOps
                /\ \A e \in DataIds \ {c} : calls'[e] = calls[e]]_vars
C31_Witness ==
    /\ last.op = "requestSuccess"
    /\ calls[1].st = "pending"
    /\ calls[1].op = "put"
    /\ calls[2].st = "resolved"
    /\ calls[2].op = "get"
    /\ calls[2].store # calls[1].store
    /\ calls[2].result = Some([id |-> 1, name |-> "John"])
    /\ queue = << 1 >>

\* C32: a database reference held by the handle is an engine connection that
\* is open: not one that was closed, and not one of an open request that
\* ended in error.
C32_ReferenceIsOpenConnection ==
    db # NULL => (connState[db] = "open" /\ reqState[db] # "error")

\* C33: in every interleaving of close() with data calls, a data call tests
\* the reference and starts its transaction in one step: with no reference
\* it is refused with NotOpen and makes no engine call; with a reference its
\* first engine call is transaction() on that very reference, which no
\* close() can clear in between.
C33_CheckAndTransactionAtomic ==
    [][last'.op \in DataOps =>
          \E c \in DataIds :
             /\ calls' = [calls EXCEPT ![c] = calls'[c]]
             /\ calls'[c].op = last'.op
             /\ calls'[c].store = last'.store
             /\ calls'[c].conn = db
             /\ last'.db0 = db
             /\ db' = db
             /\ db = NULL => /\ last'.calls = << >>
                             /\ calls'[c].st = "rejected"
                             /\ calls'[c].err = "NotOpen"
                             /\ calls'[c].scope = {}
             /\ db # NULL => /\ last'.calls # << >>
                             /\ last'.calls[1] = "transaction"
                             /\ calls'[c].err # "NotOpen"
                             /\ calls'[c].scope = {last'.store}
                             /\ calls'[c].st = "pending" =>
                                   /\ connState[db] = "open"
                                   /\ queue' = Append(queue, c)]_vars
C33_Witness ==
    /\ last.op \in DataOps
    /\ last.result = "issued"
    /\ Reopened
    /\ last.db0 = db
    /\ \E c \in DataIds :
          /\ calls[c].st = "pending" /\ calls[c].conn = db
          /\ \E e \in DataIds \ {c} :
                /\ calls[e].st = "rejected" /\ calls[e].err = "NotOpen"

\* C34: close() settles no promise and removes no request; a data call that
\* is in flight on a connection that has been closed stays pending, with its
\* request in the engine, until the success or the error event of that
\* request settles it with the engine's outcome; once settled, its outcome
\* changes only when the caller makes a new call.
C34_CloseDoesNotCancel ==
    [][/\ last'.op = "close" =>
             /\ calls' = calls
             /\ queue' = queue
             /\ openPromise' = openPromise
             /\ records' = records
       /\ \A c \in DataIds :
             /\ (/\ calls[c].st = "pending"
                 /\ calls[c].conn # NULL
                 /\ connState[calls[c].conn] = "closed") =>
                   \/ /\ calls'[c] = calls[c]
                      /\ \E i \in 1..Len(queue') : queue'[i] = c
                   \/ /\ last'.op = "requestSuccess"
                      /\ calls'[c] = [calls[c] EXCEPT
                                         !.st = "resolved",
                                         !.result = Resolution(calls[c].op, RequestResult(c))]
                      /\ records' = [records EXCEPT ![calls[c].store] = RecordsAfter(c)]
                   \/ /\ last'.op = "requestError"
                      /\ calls'[c] = [calls[c] EXCEPT
                                         !.st = "rejected",
                                         !.err = FailedKind(calls[c].op)]
                      /\ records' = records
             /\ (calls[c].st \in {"resolved", "rejected"} /\ calls'[c] # calls[c])
                   => last'.op \in DataOps]_vars
C34_Witness ==
    /\ last.op = "requestSuccess"
    /\ db = NULL
    /\ closedAt >= 0
    /\ calls[1].op = "delete"
    /\ calls[1].st = "resolved"
    /\ calls[1].conn # NULL
    /\ connState[calls[1].conn] = "closed"
    /\ records["users"][1] = UNDEF

\* C35: with two open calls of one handle overlapping, while an upgrade
\* callback runs the handle's upgrade context is the transaction of the
\* request whose event invoked it and its database reference is that
\* request's connection (or none, after a close() inside the callback); a
\* createStore or createIndex that declares something inside the callback
\* declares it through that request, and touches no other connection.
C35_CallbackActsOnItsOwnUpgrade ==
    [][/\ running' # NULL =>
             /\ upgradeTransaction' = running'
             /\ db' \in {running', NULL}
             /\ reqState'[running'] = "upgrading"
       /\ (last'.op \in SchemaOps /\ running # NULL /\ last'.result = "ok") =>
             /\ last'.db0 = running
             /\ last'.tx0 = running
             /\ running' = running
             /\ stores'[last'.store] # NoStore
             /\ last'.store \in connNames'[running]
             /\ \A r \in Requests \ {running} :
                   connNames'[r] = connNames[r] /\ connState'[r] = connState[r]]_vars
C35_Witness ==
    /\ last.op \in SchemaOps
    /\ last.result = "ok"
    /\ running # NULL
    /\ last.db0 = running
    /\ last.tx0 = running
    /\ \E r \in Requests \ {running} : reqState[r] = "pending"

\* C36: no data call, no success or error event of a data request, and no
\* createStore or createIndex call changes the handle's database reference
\* or its upgrade context; a step that changes one of them is an event
\* handler of open (upgrade-needed with the end of its callback, success) or
\* close().
C36_OnlyOpenAndCloseWriteHandle ==
    [][/\ last'.op \in CallOps \cup {"requestSuccess", "requestError"}
             => (db' = db /\ upgradeTransaction' = upgradeTransaction)
       /\ db' # db => last'.op \in {"onupgradeneeded", "onsuccess", "close"}
       /\ upgradeTransaction' # upgradeTransaction
             => last'.op \in {"onupgradeneeded", "callbackReturn", "onsuccess"}]_vars
C36_Witness ==
    /\ last.op \in DataOps
    /\ last.result = "NotFoundError"
    /\ last.calls = << "transaction" >>
    /\ db # NULL
    /\ db = last.db0
    /\ HandleOpen
    /\ upgradeTransaction = last.tx0
====
